---- MODULE Spec2Model ----
(***************************************************************************)
(* Model of PiPhi.py, the LCD/keypad front panel for the pianobar client.  *)
(*                                                                         *)
(* Text is modelled by TLA+ strings (sequences of characters).             *)
(* Time is counted in frame periods of 1/MAX_FPS seconds, the resolution   *)
(* of the main loop's throttle.  Volumes are Python floats in the source;  *)
(* here they are exact fixed-point numbers with VolUnit steps per volume   *)
(* unit, which represents every product of at most MaxHold factors 1.15    *)
(* exactly.                                                                *)
(***************************************************************************)
EXTENDS Integers, Sequences, FiniteSets, TLC

(***************************************************************************)
(* Program constants (PiPhi.py lines 29-36).                               *)
(***************************************************************************)
RGB_LCD == FALSE
HALT_ON_EXIT == FALSE
MAX_FPS == 4
VOL_MIN == -20
VOL_MAX == 15
VOL_DEFAULT == 0
HOLD_TIME == 3

(***************************************************************************)
(* Bounds of the model.                                                    *)
(***************************************************************************)
\* Longest run of consecutive volume ticks whose speed is still represented.
MaxHold == 2
\* The main loop is explored for this many passes.
MaxPasses == 4
\* Longest block of station-list lines given to get_stations.
MaxLines == 2
\* Longest song title announced in the scrolling specification.
MaxText == 13
\* Passes of the main loop in the scrolling specification.
MaxFrames == 36
\* Passes of the main loop in the parsing specification.
MaxParses == 2
\* Most characters of pianobar output that wait to be read.
MaxBuffer == 40

(***************************************************************************)
(* Small arithmetic helpers.                                               *)
(***************************************************************************)
Min(a, b) == IF a < b THEN a ELSE b
Max(a, b) == IF a > b THEN a ELSE b

RECURSIVE Pow(_, _)
Pow(b, e) == IF e = 0 THEN 1 ELSE b * Pow(b, e - 1)

\* Python int(a / b) for b > 0: the quotient truncated toward zero.
IntDiv(a, b) == IF a >= 0 THEN a \div b ELSE -((-a) \div b)

(***************************************************************************)
(* Python string operations used by the program.                           *)
(***************************************************************************)
\* s[i:j] for 0 <= i, with the usual clamping to the string's length.
Slice(s, i, j) ==
    LET lo == Max(i, 0)
        hi == Min(j, Len(s))
    IN  IF lo >= hi THEN "" ELSE SubSeq(s, lo + 1, hi)

\* s[i:]
SliceFrom(s, i) == Slice(s, i, Len(s))

\* s * k
RECURSIVE Repeat(_, _)
Repeat(s, k) == IF k <= 0 THEN "" ELSE s \o Repeat(s, k - 1)

\* The least element of a non-empty set of integers.
Least(S) == CHOOSE i \in S : \A j \in S : i <= j

\* s.find(p): index of the first occurrence of p in s, or -1.
Find(s, p) ==
    LET hits == {i \in 0..(Len(s) - Len(p)) : Slice(s, i, i + Len(p)) = p}
    IN  IF hits = {} THEN -1 ELSE Least(hits)

IsSpace(c) == c \in {" ", "\t", "\n", "\r"}

\* s.strip()
Strip(s) ==
    LET inked == {i \in 0..(Len(s) - 1) : ~IsSpace(Slice(s, i, i + 1))}
    IN  IF inked = {} THEN ""
        ELSE Slice(s, Least(inked), Least({-i : i \in inked}) * (-1) + 1)

(***************************************************************************)
(* marquee(s, x, y, x_wrap), lines 123-130.  MarqueeFrame is the text      *)
(* written to the display row, marquee the returned position.             *)
(***************************************************************************)
MarqueeFrame(s, x) ==
    IF x > 0 THEN Repeat(" ", x) \o Slice(s, 0, 16 - x)
    ELSE Slice(s, -x, 16 - x)

\* A marquee that restarts from the right edge on wrap instead of from 0.
marqueeRestart(s, x, x_wrap) ==
    IF x > 0 THEN x - 1
    ELSE IF x < x_wrap THEN 16
    ELSE x - 1

marquee(s, x, x_wrap) ==
    IF x > 0 THEN x - 1
    ELSE IF x < x_wrap THEN 0
    ELSE x - 1

(***************************************************************************)
(* get_stations(), lines 192-225, applied to the lines `a` of the text     *)
(* that precedes the station prompt.                                       *)
(***************************************************************************)
\* A loop body that takes the status lines for stations too.
StationLineNoSkip(b, acc) ==
    LET id   == Strip(Slice(b, 5, 7))
        name == Strip(SliceFrom(b, 13))
    IN  IF name = "QuickMix"
        THEN [names |-> <<name>> \o acc.names, ids |-> <<id>> \o acc.ids]
        ELSE [names |-> Append(acc.names, name), ids |-> Append(acc.ids, id)]

\* The loop body of lines 203-224 for one line b, given the lists so far.
StationLine(b, acc) ==
    IF Find(b, "playlist...") >= 0 \/ Find(b, "Autostart") >= 0 THEN acc
    ELSE IF Find(b, "Radio") # 0 \/ Find(b, "QuickMix") # 0 THEN
        LET id   == Strip(Slice(b, 5, 7))
            name == Strip(SliceFrom(b, 13))
        IN  IF name = "QuickMix"
            THEN [names |-> <<name>> \o acc.names, ids |-> <<id>> \o acc.ids]
            ELSE [names |-> Append(acc.names, name), ids |-> Append(acc.ids, id)]
    ELSE acc

RECURSIVE StationLoop(_, _, _)
StationLoop(a, i, acc) ==
    IF i > Len(a) - 1 THEN acc
    ELSE StationLoop(a, i + 1, StationLine(a[i], acc))

\* A parser that always appends, forgetting to move QuickMix to the head.
get_stationsAppend(a) ==
    LET RECURSIVE App(_, _)
        App(i, acc) ==
            IF i > Len(a) - 1 THEN acc
            ELSE App(i + 1, [names |-> Append(acc.names, Strip(SliceFrom(a[i], 13))),
                             ids   |-> Append(acc.ids, Strip(Slice(a[i], 5, 7)))])
    IN  App(1, [names |-> <<>>, ids |-> <<>>])

get_stations(a) == StationLoop(a, 1, [names |-> <<>>, ids |-> <<>>])

\* text.splitlines(): split at "\r\n", "\n" or "\r"; no empty last line.
RECURSIVE SplitFrom(_, _)
SplitFrom(text, acc) ==
    LET ends == {i \in 0..(Len(text) - 1) : Slice(text, i, i + 1) \in {"\n", "\r"}}
    IN  IF text = "" THEN acc
        ELSE IF ends = {} THEN Append(acc, text)
        ELSE LET at   == Least(ends)
                 skip == IF Slice(text, at, at + 2) = "\r\n" THEN 2 ELSE 1
             IN  SplitFrom(SliceFrom(text, at + skip), Append(acc, Slice(text, 0, at)))

SplitLines(text) == SplitFrom(text, <<>>)

(***************************************************************************)
(* pexpect: pianobar.expect(patterns) on the pending output `buf`.  The    *)
(* earliest match wins (the first pattern of the list on a tie); `before`  *)
(* becomes the text in front of it and the buffer what follows it.  x = -1 *)
(* stands for the TIMEOUT or EOF exception, which leaves the buffer.       *)
(***************************************************************************)
Expect(buf, pats) ==
    LET hits == {i \in 1..Len(pats) : Find(buf, pats[i]) >= 0}
    IN  IF hits = {} THEN [x |-> -1, before |-> buf, buffer |-> buf]
        ELSE LET at == Least({Find(buf, pats[k]) : k \in hits})
                 i  == Least({k \in hits : Find(buf, pats[k]) = at})
             IN  [x |-> i - 1, before |-> Slice(buf, 0, at),
                  buffer |-> SliceFrom(buf, at + Len(pats[i]))]

\* pattern_list of line 316
pattern_list == <<"SONG: ", "STATION: ", "TIME: ">>

\* A field separator without the spaces around the pipe.
FieldSepBare == "|"

\* The field separator that lines 331, 339 and 352 wait for: the regular
\* expression ' \| ', a pipe between two spaces.
FieldSep == " | "

\* Seconds a blocking expect waits before raising TIMEOUT: pexpect's default
\* (lines 331, 339, 343, 352) and the timeout=1 of line 357, in frame periods.
ExpectWait == 30 * MAX_FPS
TimeWait == 1 * MAX_FPS

(***************************************************************************)
(* Time and volume scales.                                                 *)
(***************************************************************************)
HoldTicks == HOLD_TIME * MAX_FPS    \* HOLD_TIME, line 386
VolIdleTicks == 4 * MAX_FPS         \* the 4 seconds of line 499
PlayMsgTicks == 3 * MAX_FPS         \* the 3 seconds of line 536
GraceTicks == MAX_FPS \div 2        \* the 0.5 seconds of line 164

\* time.time() when the program starts: later than the zero timestamps of
\* lines 45-47 by more than every timeout.
StartTime == 2 * VolIdleTicks

\* Fixed-point scale of the volume variables: 1.0 is VolUnit.
VolUnit == Pow(20, MaxHold)
Vol(n) == n * VolUnit

\* int((v - VOL_MIN) + 0.5), lines 467, 510, 511
VolInt(v) == IntDiv(2 * (v - Vol(VOL_MIN)) + VolUnit, 2 * VolUnit)

\* vol_speed * 1.15, line 486
Accelerate(speed) == (speed * 23) \div 20
\* Whether speed * 1.15 still is a whole number of fixed-point steps.
Representable(speed) == (speed * 23) % 20 = 0

Buttons == {"SELECT", "RIGHT", "LEFT", "UP", "DOWN"}

(***************************************************************************)
(* State.  The names are the program's globals; pc is the position of the  *)
(* script, passes the number of passes of the main loop so far, btn the   *)
(* buttons that the poll of lines 374-378 found pressed (btn_up, btn_down,  *)
(* btn_left, btn_right, btn_sel), held the time for which select then       *)
(* stayed down (lines 384-387), now the value of time.time(), buffer the   *)
(* output of pianobar *)
(* that is not yet consumed, before pianobar.before, sent the commands     *)
(* sent to pianobar by the latest step, spawned the number of calls of     *)
(* pexpect.spawn, picklefile the content of PICKLEFILE, bar the texts that  *)
(* the latest step wrote for the volume bargraph, each with the column of  *)
(* row 1 where it starts.                                                  *)
(***************************************************************************)
VARIABLES pc, passes, btn, held, now, lcd, pianobar, spawned, picklefile, default_station,
          buffer, before, sent,
          vol_cur, vol_new, vol_speed, vol_set, paused, sta_sel,
          vol_time, play_msg_time, sta_btn_time,
          x_title, x_info, x_station, x_title_wrap, x_info_wrap,
          song_title, song_info, artist,
          station_num, station_new, station_list, station_ids,
          cursorY, list_top, bar

vars == <<pc, passes, btn, held, now, lcd, pianobar, spawned, picklefile, default_station,
          buffer, before, sent,
          vol_cur, vol_new, vol_speed, vol_set, paused, sta_sel,
          vol_time, play_msg_time, sta_btn_time,
          x_title, x_info, x_station, x_title_wrap, x_info_wrap,
          song_title, song_info, artist,
          station_num, station_new, station_list, station_ids,
          cursorY, list_top, bar>>

\* The globals the main loop works on, as one record, so that the parts of
\* one pass of the loop can be applied one after the other.
Globals ==
    [now |-> now, lcd |-> lcd, picklefile |-> picklefile,
     buffer |-> buffer, before |-> before, sent |-> sent,
     vol_cur |-> vol_cur, vol_new |-> vol_new, vol_speed |-> vol_speed,
     vol_set |-> vol_set, paused |-> paused, sta_sel |-> sta_sel,
     vol_time |-> vol_time, play_msg_time |-> play_msg_time,
     sta_btn_time |-> sta_btn_time,
     x_title |-> x_title, x_info |-> x_info, x_station |-> x_station,
     x_title_wrap |-> x_title_wrap, x_info_wrap |-> x_info_wrap,
     song_title |-> song_title, song_info |-> song_info, artist |-> artist,
     station_num |-> station_num, station_new |-> station_new,
     cursorY |-> cursorY, list_top |-> list_top, bar |-> bar,
     raised |-> FALSE]

\* The globals after the step are those of the record u.
Commit(u) ==
    /\ now' = u.now
    /\ lcd' = u.lcd
    /\ picklefile' = u.picklefile
    /\ buffer' = u.buffer
    /\ before' = u.before
    /\ sent' = u.sent
    /\ vol_cur' = u.vol_cur
    /\ vol_new' = u.vol_new
    /\ vol_speed' = u.vol_speed
    /\ vol_set' = u.vol_set
    /\ paused' = u.paused
    /\ sta_sel' = u.sta_sel
    /\ vol_time' = u.vol_time
    /\ play_msg_time' = u.play_msg_time
    /\ sta_btn_time' = u.sta_btn_time
    /\ x_title' = u.x_title
    /\ x_info' = u.x_info
    /\ x_station' = u.x_station
    /\ x_title_wrap' = u.x_title_wrap
    /\ x_info_wrap' = u.x_info_wrap
    /\ song_title' = u.song_title
    /\ song_info' = u.song_info
    /\ artist' = u.artist
    /\ station_num' = u.station_num
    /\ station_new' = u.station_new
    /\ cursorY' = u.cursorY
    /\ list_top' = u.list_top
    /\ bar' = u.bar

\* The display after lcd.message(...) and after lcd.clear().
Wrote(l) == [l EXCEPT !.blank = FALSE]
Cleared(l) == [l EXCEPT !.blank = TRUE]

\* pianobar.send(s)
Send(u, s) == [u EXCEPT !.sent = Append(@, s)]

(***************************************************************************)
(* "Process all pending pianobar output", lines 321-371.                   *)
(***************************************************************************)
\* A blocking expect that found nothing: TIMEOUT is raised after `wait`.
Timeout(u, wait) ==
    [u EXCEPT !.raised = TRUE, !.now = @ + wait, !.before = u.buffer]

\* pianobar.expect(pat) that matched, as the record e says.
Matched(u, e) == [u EXCEPT !.buffer = e.buffer, !.before = e.before]

\* Lines 325-330: the now-playing record is cleared.
SongReset(u) ==
    [u EXCEPT !.song_title = "", !.song_info = "",
              !.x_title = 16, !.x_info = 16,
              !.x_title_wrap = 0, !.x_info_wrap = 0]

\* A title string without the 16 extra characters of line 338.
SongTitleShort(u, s) ==
    [u EXCEPT !.x_title_wrap = -Len(s) + 2,
              !.song_title = Repeat(s, 1 + (16 \div Len(s)))]

\* Lines 334-338, with s the title and its padding.
SongTitle(u, s) ==
    [u EXCEPT !.x_title_wrap = -Len(s) + 2,
              !.song_title = Repeat(s, 1 + (16 \div Len(s))) \o Slice(s, 0, 16)]

\* Lines 346-350, with s the artist/album text.
SongInfo(u, s) ==
    [u EXCEPT !.x_info_wrap = -Len(s) + 2,
              !.song_info = Repeat(s, 2 + (16 \div Len(s))) \o Slice(s, 0, 16)]

\* Lines 343-350: e is the result of pianobar.expect('\r\n').
AlbumField(u, e) ==
    IF e.x # 0 THEN Timeout(u, ExpectWait)
    ELSE SongInfo(Matched(u, e), u.artist \o " < " \o e.before \o " > ")

\* Lines 339-343: e is the result of the second pianobar.expect(' \| ').
ArtistField(u, e) ==
    IF e.x # 0 THEN Timeout(u, ExpectWait)
    ELSE AlbumField([Matched(u, e) EXCEPT !.artist = e.before],
                    Expect(e.buffer, <<"\r\n">>))

\* Lines 331-339: e is the result of the first pianobar.expect(' \| ').
TitleField(u, e) ==
    IF e.x # 0 THEN Timeout(u, ExpectWait)
    ELSE ArtistField(SongTitle(Matched(u, e), e.before \o "    "),
                     Expect(e.buffer, <<FieldSep>>))

\* Lines 325-350: the marker 'SONG: ' has just been matched.
SongAnnounce(u) == TitleField(SongReset(u), Expect(u.buffer, <<FieldSep>>))

\* Lines 352-354: e is the result of pianobar.expect(' \| ').
StationField(u, e) == IF e.x # 0 THEN Timeout(u, ExpectWait) ELSE Matched(u, e)

\* Lines 351-354: the marker 'STATION: ' has just been matched.
StationAnnounce(u) == StationField(u, Expect(u.buffer, <<FieldSep>>))

\* Lines 357-367: e is the result of pianobar.expect('\r', timeout=1); the
\* state is dumped to the pickle file unless the disk refuses (disk_ok false).
TimeField(u, e, disk_ok) ==
    IF e.x # 0 THEN Timeout(u, TimeWait)
    ELSE [Matched(u, e) EXCEPT
            !.picklefile =
                IF disk_ok
                THEN [ok |-> TRUE,
                      v  |-> <<u.vol_cur, station_list[u.station_num + 1]>>]
                ELSE @]

\* Lines 355-367: the marker 'TIME: ' has just been matched.
TimeMark(u, disk_ok) == TimeField(u, Expect(u.buffer, <<"\r">>), disk_ok)

\* Lines 324-367: the branch of the marker that e found.
Marker(u, e, disk_ok) ==
    IF e.x = 0 THEN SongAnnounce(Matched(u, e))
    ELSE IF e.x = 1 THEN StationAnnounce(Matched(u, e))
    ELSE TimeMark(Matched(u, e), disk_ok)

\* The loop of lines 321-371: it ends with the first TIMEOUT or EOF.
RECURSIVE ProcessOutput(_, _)

\* An exception raised in the branch ends the loop (lines 368-371).
NextOutput(r, disk_ok) == IF r.raised THEN r ELSE ProcessOutput(r, disk_ok)

\* Line 323: e is the result of pianobar.expect(pattern_list, timeout=0).
OutputStep(u, e, disk_ok) ==
    IF e.x = -1 THEN [u EXCEPT !.before = u.buffer]
    ELSE NextOutput(Marker(u, e, disk_ok), disk_ok)

ProcessOutput(u, disk_ok) == OutputStep(u, Expect(u.buffer, pattern_list), disk_ok)

(***************************************************************************)
(* draw_stations(station_new, list_top, x_station, sta_btn_time), lines    *)
(* 153-189, at time t: the value it returns, the next scroll position of   *)
(* a long highlighted name.                                                *)
(***************************************************************************)
draw_stations(sn, top, xs, btn_time, t) ==
    LET shown == top >= 0 /\ sn - top \in {0, 1} /\ sn < Len(station_list)
        sLen  == IF shown THEN Len(station_list[sn + 1]) ELSE 0
    IN  IF /\ shown
           /\ sLen > 15
           /\ (t - btn_time) >= GraceTicks
           /\ xs > -(sLen + 2)
        THEN xs - 1
        ELSE 0

(***************************************************************************)
(* The volume bargraph of row 1.  A text is a sequence of character codes: *)
(* 0..5 are the bricks of the bar, 6 is the volume icon.                   *)
(***************************************************************************)
\* chr(c) * k, which is empty for k <= 0.
Chars(c, k) == [i \in 1..k |-> c]

\* ' Volume '
VolumeLabel == <<32, 86, 111, 108, 117, 109, 101, 32>>

\* Lines 466-473: the bar drawn at column 0 on entering volume-setting
\* mode, for the integerized volume vol_cur_i.
FullBar(vol_cur_i) ==
    [col  |-> 0,
     text |-> <<6>> \o VolumeLabel \o Chars(5, vol_cur_i \div 5)
                    \o <<vol_cur_i % 5>> \o Chars(0, 6 - (vol_cur_i \div 5))]

\* Lines 525-534: the part of the bar redrawn when the integerized volume
\* goes from vol_cur_i to vol_new_i.
BarRedraw(vol_cur_i, vol_new_i) ==
    IF vol_new_i > vol_cur_i
    THEN [col  |-> (vol_cur_i \div 5) + 9,
          text |-> Chars(5, (vol_new_i \div 5) - (vol_cur_i \div 5)) \o <<vol_new_i % 5>>]
    ELSE [col  |-> (vol_new_i \div 5) + 9,
          text |-> <<vol_new_i % 5>> \o Chars(0, (vol_cur_i \div 5) - (vol_new_i \div 5))]

(***************************************************************************)
(* The branches of the main loop on the polled buttons, lines 382-501.     *)
(***************************************************************************)
\* A select tap that toggles play/pause in the station menu too.
SelectTapAlwaysToggles(u, h) ==
    LET w == [u EXCEPT !.now = @ + h]
    IN  [Send(w, IF w.sta_sel THEN "\n" ELSE "p") EXCEPT
            !.sta_sel = FALSE,
            !.vol_set = FALSE,
            !.paused = ~w.paused,
            !.lcd = Wrote(@),
            !.play_msg_time = IF w.paused THEN w.now ELSE @]

\* Lines 388-400: select was tapped and released after h frame periods.
SelectTap(u, h) ==
    LET w == [u EXCEPT !.now = @ + h]
    IN  IF w.sta_sel
        THEN [Send(w, "\n") EXCEPT
                !.sta_sel = FALSE,
                !.lcd = IF w.paused THEN Wrote(@) ELSE @]
        ELSE [Send(w, "p") EXCEPT
                !.vol_set = FALSE,
                !.paused = ~w.paused,
                !.lcd = Wrote(@),
                !.play_msg_time = IF w.paused THEN w.now ELSE @]

\* A right button that leaves the pause flag alone.
RightButtonKeepsPause(u) ==
    LET w == IF u.sta_sel THEN [Send(u, "\n") EXCEPT !.sta_sel = FALSE] ELSE u
    IN  [Send(w, "n") EXCEPT !.lcd = Wrote(@), !.vol_set = FALSE]

\* Lines 404-412
RightButton(u) ==
    LET w == IF u.sta_sel THEN [Send(u, "\n") EXCEPT !.sta_sel = FALSE] ELSE u
    IN  [Send(w, "n") EXCEPT !.lcd = Wrote(@), !.paused = FALSE, !.vol_set = FALSE]

\* A left button that leaves the menu without committing the highlight.
LeftButtonNoCommit(u) ==
    IF ~u.sta_sel
    THEN [Send(u, "s") EXCEPT
            !.sta_sel = TRUE, !.vol_set = FALSE, !.cursorY = 0, !.station_new = 0,
            !.list_top = 0, !.x_station = 0, !.sta_btn_time = u.now, !.lcd = Wrote(@)]
    ELSE [Send(u, station_ids[u.station_num + 1] \o "\n") EXCEPT
            !.sta_sel = FALSE, !.paused = FALSE]

\* A left button that forgets to leave volume-setting mode (no line 424).
LeftButtonKeepsVolume(u) ==
    IF ~u.sta_sel
    THEN [Send(u, "s") EXCEPT
            !.sta_sel = TRUE, !.cursorY = 0, !.station_new = 0, !.list_top = 0,
            !.x_station = 0, !.sta_btn_time = u.now, !.lcd = Wrote(@)]
    ELSE [Send(u, station_ids[u.station_new + 1] \o "\n") EXCEPT
            !.sta_sel = FALSE, !.station_num = u.station_new, !.paused = FALSE]

\* Lines 416-438
LeftButton(u) ==
    IF ~u.sta_sel
    THEN \* entering the station menu
         [Send(u, "s") EXCEPT
            !.sta_sel = TRUE,
            !.vol_set = FALSE,
            !.cursorY = 0,
            !.station_new = 0,
            !.list_top = 0,
            !.x_station = 0,
            !.sta_btn_time = u.now,
            !.lcd = Wrote(@)]
    ELSE \* leaving it with the highlighted station
         [Send(u, station_ids[u.station_new + 1] \o "\n") EXCEPT
            !.sta_sel = FALSE,
            !.station_num = u.station_new,
            !.paused = FALSE]

\* A menu whose window never follows the highlight down.
MenuMoveNoScroll(u, up, down) ==
    IF down
    THEN IF u.station_new < Len(station_list) - 1
         THEN [u EXCEPT !.station_new = @ + 1,
                        !.cursorY = IF @ < 1 THEN @ + 1 ELSE @,
                        !.x_station = 0]
         ELSE u
    ELSE IF u.station_new > 0
         THEN [u EXCEPT !.station_new = @ - 1,
                        !.cursorY = IF @ > 0 THEN @ - 1 ELSE @,
                        !.list_top = IF u.cursorY > 0 THEN @ ELSE @ - 1,
                        !.x_station = 0]
         ELSE u

\* Lines 445-459: the highlight moves in the station menu.
MenuMove(u, up, down) ==
    IF down
    THEN IF u.station_new < Len(station_list) - 1
         THEN [u EXCEPT !.station_new = @ + 1,
                        !.cursorY = IF @ < 1 THEN @ + 1 ELSE @,
                        !.list_top = IF u.cursorY < 1 THEN @ ELSE @ + 1,
                        !.x_station = 0]
         ELSE u
    ELSE IF u.station_new > 0
         THEN [u EXCEPT !.station_new = @ - 1,
                        !.cursorY = IF @ > 0 THEN @ - 1 ELSE @,
                        !.list_top = IF u.cursorY > 0 THEN @ ELSE @ - 1,
                        !.x_station = 0]
         ELSE u

\* A volume step that forgets the upper clamp of line 480.
VolumeStepNoClamp(u, up, down) ==
    LET w == IF ~u.vol_set
             THEN [u EXCEPT !.vol_set = TRUE, !.vol_speed = VolUnit, !.lcd = Wrote(@)]
             ELSE u
    IN  [w EXCEPT
           !.vol_new = IF up THEN w.vol_cur + w.vol_speed
                       ELSE Max(w.vol_cur - w.vol_speed, Vol(VOL_MIN)),
           !.vol_time = w.now,
           !.vol_speed = Accelerate(@)]

\* Lines 464-486: a volume button outside the station menu.
VolumeStep(u, up, down) ==
    LET w == IF ~u.vol_set
             THEN [u EXCEPT !.vol_set = TRUE, !.vol_speed = VolUnit, !.lcd = Wrote(@),
                            !.bar = Append(@, FullBar(VolInt(u.vol_cur)))]
             ELSE u
    IN  [w EXCEPT
           !.vol_new = IF up THEN Min(w.vol_cur + w.vol_speed, Vol(VOL_MAX))
                       ELSE Max(w.vol_cur - w.vol_speed, Vol(VOL_MIN)),
           !.vol_time = w.now,
           !.vol_speed = Accelerate(@)]

\* Lines 441-486
UpDown(u, up, down) ==
    IF u.sta_sel
    THEN LET m == MenuMove(u, up, down)
         IN  [m EXCEPT !.sta_btn_time = u.now,
                       !.x_station = draw_stations(m.station_new, m.list_top, 0,
                                                   u.now, u.now),
                       !.lcd = Wrote(@)]
    ELSE VolumeStep(u, up, down)

\* An idle branch whose timeout never fires.
NoButtonsNoTimeout(u) ==
    IF u.sta_sel THEN u
    ELSE IF u.vol_set THEN [u EXCEPT !.vol_speed = VolUnit]
    ELSE u

\* Lines 489-501: no button is pressed.
NoButtons(u) ==
    IF u.sta_sel
    THEN IF Len(station_list[u.station_new + 1]) > 15
         THEN [u EXCEPT !.x_station = draw_stations(u.station_new, u.list_top, @,
                                                    u.sta_btn_time, u.now),
                        !.lcd = Wrote(@)]
         ELSE u
    ELSE IF u.vol_set
    THEN [u EXCEPT !.vol_speed = VolUnit,
                   !.vol_set = ~((u.now - u.vol_time) >= VolIdleTicks),
                   !.lcd = IF (u.now - u.vol_time) >= VolIdleTicks /\ u.paused
                           THEN Wrote(@) ELSE @]
    ELSE u

(***************************************************************************)
(* "Various 'always on' logic independent of buttons", lines 504-538.      *)
(***************************************************************************)
\* Always-on logic that runs in the station menu too (no line 504).
AlwaysOnInMenu(u) ==
    LET d == VolInt(u.vol_new) - VolInt(u.vol_cur)
        s == IF d > 0 THEN Repeat(")", d) ELSE Repeat("(", -d)
        w == IF d # 0 THEN Send(u, s) ELSE u
        info == /\ ~u.vol_set
                /\ ~u.paused
                /\ (u.now - u.play_msg_time) >= PlayMsgTicks
    IN  [w EXCEPT
           !.x_title = marquee(u.song_title, @, u.x_title_wrap),
           !.vol_cur = u.vol_new,
           !.x_info = IF info THEN marquee(u.song_info, @, u.x_info_wrap) ELSE @,
           !.lcd = Wrote(@)]

\* Always-on logic that sends one volume step whatever the difference is.
AlwaysOnOneStep(u) ==
    IF u.sta_sel THEN u
    ELSE
    LET d == VolInt(u.vol_new) - VolInt(u.vol_cur)
        w == IF d # 0 THEN Send(u, IF d > 0 THEN ")" ELSE "(") ELSE u
        info == /\ ~u.vol_set
                /\ ~u.paused
                /\ (u.now - u.play_msg_time) >= PlayMsgTicks
    IN  [w EXCEPT
           !.x_title = marquee(u.song_title, @, u.x_title_wrap),
           !.vol_cur = u.vol_new,
           !.x_info = IF info THEN marquee(u.song_info, @, u.x_info_wrap) ELSE @,
           !.lcd = Wrote(@)]

AlwaysOn(u) ==
    IF u.sta_sel THEN u
    ELSE
    LET vol_cur_i == VolInt(u.vol_cur)
        vol_new_i == VolInt(u.vol_new)
        d == vol_new_i - vol_cur_i
        s == IF d > 0 THEN Repeat(")", d) ELSE Repeat("(", -d)
        w == IF d # 0 THEN Send(u, s) ELSE u
        info == /\ ~u.vol_set
                /\ ~u.paused
                /\ (u.now - u.play_msg_time) >= PlayMsgTicks
    IN  [w EXCEPT
           !.x_title = marquee(u.song_title, @, u.x_title_wrap),
           !.vol_cur = u.vol_new,
           !.bar = IF u.vol_set /\ d # 0
                   THEN Append(@, BarRedraw(vol_cur_i, vol_new_i))
                   ELSE @,
           !.x_info = IF info THEN marquee(u.song_info, @, u.x_info_wrap) ELSE @,
           !.lcd = Wrote(@)]

(***************************************************************************)
(* clean_exit() and shutdown(), lines 93-118.                              *)
(***************************************************************************)
\* Signals whose default action ends the process that receives them.
FatalSignals == {1, 2, 3, 9, 15}

\* pexpect's spawn.kill(sig): os.kill(pid, sig) if the child is alive.
\* Signal 0 is the null signal: it is delivered to nobody.
kill(p, sig) == IF p = "alive" /\ sig \in FatalSignals THEN "dead" ELSE p

\* Lines 94-98
CleanLcd(l) == [backlight |-> 0, display |-> FALSE, blank |-> TRUE]

\* Lines 99-100; with pianobar not yet assigned, line 99 raises NameError.
CleanPlayer(p) == IF p = "undefined" THEN p ELSE kill(p, 0)

\* Line 104: the display is cleared; then, HALT_ON_EXIT being what it is,
\* either the ramp-down of lines 106-116 or exit(0).
shutdown(u) ==
    LET c == [u EXCEPT !.lcd = Cleared(@)]
        steps == VolInt(u.vol_cur) + 1
    IN  IF HALT_ON_EXIT
        THEN [c EXCEPT !.lcd = CleanLcd(@),
                       !.sent = @ \o [i \in 1..steps |-> "("],
                       !.now = @ + 5 * MAX_FPS]
        ELSE c

(***************************************************************************)
(* The inputs of one pass of the main loop.                                *)
(***************************************************************************)
\* What the buttons read at one poll: nothing, one button, both volume
\* buttons, or select together with right.  The if/elif chain of lines
\* 382-489 treats every other set like its button of highest rank alone.
Pressed ==
    {{}} \cup {{x} : x \in Buttons} \cup {{"UP", "DOWN"}, {"SELECT", "RIGHT"}}

\* Frame periods from the end of one pass to the poll of the next.
Delays == {1, VolIdleTicks}

\* Frame periods for which a pressed select button stays down.
Holds == {0, HoldTicks - 1, HoldTicks}

\* The loop runs while pianobar is alive (line 318), here for `limit` passes.
LoopPass(limit) ==
    /\ pc = "loop"
    /\ pianobar = "alive"
    /\ passes < limit
    /\ passes' = passes + 1

LoopRuns == LoopPass(MaxPasses)

\* The disk matters only to a pass that finds a TIME marker.
DiskChoices == IF Find(buffer, "TIME: ") >= 0 THEN BOOLEAN ELSE {TRUE}

\* The globals at the poll of line 374, dt after the last pass.
Polled(dt, disk_ok) ==
    ProcessOutput([Globals EXCEPT !.now = now + dt, !.sent = <<>>, !.bar = <<>>], disk_ok)

Static == UNCHANGED <<pianobar, spawned, default_station, station_list, station_ids>>

(***************************************************************************)
(* One pass of the main loop, lines 318-544, by the branch the buttons     *)
(* select.                                                                 *)
(***************************************************************************)
\* A hold test that needs more than HOLD_TIME.
HeldLongStrict(h) == h > HoldTicks

\* Line 386: the button is still down HOLD_TIME after the poll.
HeldLong(h) == h >= HoldTicks

TickSelect ==
    \E b \in Pressed, dt \in Delays, h \in Holds, disk_ok \in DiskChoices :
        /\ LoopRuns
        /\ "SELECT" \in b
        /\ btn' = b /\ held' = h
        /\ LET u == Polled(dt, disk_ok)
           IN  IF HeldLong(h)
               THEN /\ Commit(shutdown([u EXCEPT !.now = @ + h]))
                    /\ pc' = IF HALT_ON_EXIT THEN "halted" ELSE "atexit"
               ELSE /\ Commit(AlwaysOn(SelectTap(u, h)))
                    /\ pc' = pc
        /\ Static

TickRight ==
    \E b \in Pressed, dt \in Delays, disk_ok \in DiskChoices :
        /\ LoopRuns
        /\ "SELECT" \notin b /\ "RIGHT" \in b
        /\ btn' = b /\ held' = 0
        /\ Commit(AlwaysOn(RightButton(Polled(dt, disk_ok))))
        /\ pc' = pc
        /\ Static

TickLeft ==
    \E b \in Pressed, dt \in Delays, disk_ok \in DiskChoices :
        /\ LoopRuns
        /\ "SELECT" \notin b /\ "RIGHT" \notin b /\ "LEFT" \in b
        /\ btn' = b /\ held' = 0
        /\ Commit(AlwaysOn(LeftButton(Polled(dt, disk_ok))))
        /\ pc' = pc
        /\ Static

TickUpDown ==
    \E b \in Pressed, dt \in Delays, disk_ok \in DiskChoices :
        /\ LoopRuns
        /\ b \subseteq {"UP", "DOWN"} /\ b # {}
        /\ btn' = b /\ held' = 0
        /\ sta_sel \/ Representable(IF vol_set THEN vol_speed ELSE VolUnit)
        /\ Commit(AlwaysOn(UpDown(Polled(dt, disk_ok), "UP" \in b, "DOWN" \in b)))
        /\ pc' = pc
        /\ Static

\* A pass that finds no button pressed, one of at most `limit` passes.
Idle(limit, delays) ==
    \E dt \in delays, disk_ok \in DiskChoices :
        /\ LoopPass(limit)
        /\ btn' = {} /\ held' = 0
        /\ Commit(AlwaysOn(NoButtons(Polled(dt, disk_ok))))
        /\ pc' = pc
        /\ Static

TickIdle == Idle(MaxPasses, Delays)

(***************************************************************************)
(* Initialization, lines 231-304.                                          *)
(***************************************************************************)
\* A pickle file that cannot be opened or unpickled.
NoPickle == [ok |-> FALSE, v |-> <<>>]
\* A pickle file that holds the list v.
Pickle(v) == [ok |-> TRUE, v |-> v]

\* default_station: None, or the name read from the pickle file.
None == <<>>
Name(n) == <<n>>

\* Lines 259-266
LoadPickle ==
    /\ pc = "boot"
    /\ pc' = "net"
    /\ vol_new' = IF picklefile.ok /\ Len(picklefile.v) >= 1
                  THEN picklefile.v[1] ELSE vol_new
    /\ default_station' = IF picklefile.ok /\ Len(picklefile.v) >= 2
                          THEN Name(picklefile.v[2]) ELSE None
    /\ UNCHANGED <<passes, btn, held, now, lcd, pianobar, spawned, picklefile, buffer, before, sent,
                   vol_cur, vol_speed, vol_set, paused, sta_sel,
                   vol_time, play_msg_time, sta_btn_time,
                   x_title, x_info, x_station, x_title_wrap, x_info_wrap,
                   song_title, song_info, artist,
                   station_num, station_new, station_list, station_ids,
                   cursorY, list_top, bar>>

\* Lines 280-289: the network answers.
NetworkUp ==
    /\ pc = "net"
    /\ pc' = "spawn"
    /\ lcd' = Wrote([lcd EXCEPT !.backlight = 1])
    /\ UNCHANGED <<passes, btn, held, now, pianobar, spawned, picklefile, default_station,
                   buffer, before, sent,
                   vol_cur, vol_new, vol_speed, vol_set, paused, sta_sel,
                   vol_time, play_msg_time, sta_btn_time,
                   x_title, x_info, x_station, x_title_wrap, x_info_wrap,
                   song_title, song_info, artist,
                   station_num, station_new, station_list, station_ids,
                   cursorY, list_top, bar>>

\* Lines 273-279: no connection after two minutes, exit(0).
NetworkUnreachable ==
    /\ pc = "net"
    /\ pc' = "atexit"
    /\ lcd' = Wrote(lcd)
    /\ UNCHANGED <<passes, btn, held, now, pianobar, spawned, picklefile, default_station,
                   buffer, before, sent,
                   vol_cur, vol_new, vol_speed, vol_set, paused, sta_sel,
                   vol_time, play_msg_time, sta_btn_time,
                   x_title, x_info, x_station, x_title_wrap, x_info_wrap,
                   song_title, song_info, artist,
                   station_num, station_new, station_list, station_ids,
                   cursorY, list_top, bar>>

\* What pianobar prints when it starts and lists the stations `lines`.
RECURSIVE JoinLines(_)
JoinLines(lines) ==
    IF lines = <<>> THEN "" ELSE Head(lines) \o "\r\n" \o JoinLines(Tail(lines))

StartOutput(lines) ==
    "Get stations... Ok.\r\n" \o JoinLines(lines) \o "[?] Select station: "

\* station_list.index(default_station), or 0 (lines 299-302)
IndexOr0(names, dflt) ==
    LET hits == {i \in 1..Len(names) : dflt = Name(names[i])}
    IN  IF hits = {} THEN 0
        ELSE (CHOOSE i \in hits : \A j \in hits : i <= j) - 1

\* Lines 295-304: pianobar is spawned and prints `out`.  An expect that
\* times out, or an empty station list, ends the script with an exception.
Launch(outs) ==
    \E out \in outs :
        /\ pc = "spawn"
        /\ pianobar' = "alive"
        /\ spawned' = spawned + 1
        /\ LET e1  == Expect(out, <<"Get stations... Ok.\r\n">>)
               e2  == Expect(e1.buffer, <<"Select station: ">>)
               st  == get_stations(SplitLines(e2.before))
               num == IndexOr0(st.names, default_station)
           IN  IF e1.x # 0
               THEN /\ pc' = "atexit"
                    /\ buffer' = out /\ before' = out
                    /\ UNCHANGED <<lcd, sent, station_num, station_list, station_ids>>
               ELSE IF e2.x # 0
               THEN /\ pc' = "atexit"
                    /\ buffer' = e1.buffer /\ before' = e1.buffer
                    /\ lcd' = Wrote(lcd)
                    /\ UNCHANGED <<sent, station_num, station_list, station_ids>>
               ELSE /\ buffer' = e2.buffer /\ before' = e2.before
                    /\ lcd' = Wrote(lcd)
                    /\ station_list' = st.names
                    /\ station_ids' = st.ids
                    /\ station_num' = num
                    /\ IF st.ids = <<>>
                       THEN pc' = "atexit" /\ sent' = sent
                       ELSE pc' = "loop" /\ sent' = <<st.ids[num + 1] \o "\n">>
        /\ UNCHANGED <<passes, btn, held, now, picklefile, default_station,
                       vol_cur, vol_new, vol_speed, vol_set, paused, sta_sel,
                       vol_time, play_msg_time, sta_btn_time,
                       x_title, x_info, x_station, x_title_wrap, x_info_wrap,
                       song_title, song_info, artist,
                       station_new, cursorY, list_top, bar>>

(***************************************************************************)
(* The end of the program.                                                 *)
(***************************************************************************)
\* Line 318: pianobar has ended by itself, pianobar.isalive() is false and
\* the script ends.
LoopExit ==
    /\ pc = "loop"
    /\ pianobar = "alive"
    /\ pianobar' = "dead"
    /\ pc' = "atexit"
    /\ UNCHANGED <<passes, btn, held, now, lcd, spawned, picklefile, default_station,
                   buffer, before, sent,
                   vol_cur, vol_new, vol_speed, vol_set, paused, sta_sel,
                   vol_time, play_msg_time, sta_btn_time,
                   x_title, x_info, x_station, x_title_wrap, x_info_wrap,
                   song_title, song_info, artist,
                   station_num, station_new, station_list, station_ids,
                   cursorY, list_top, bar>>

\* The exit handler registered at line 231 runs clean_exit (lines 93-100).
clean_exit ==
    /\ pc = "atexit"
    /\ pc' = "done"
    /\ lcd' = CleanLcd(lcd)
    /\ pianobar' = CleanPlayer(pianobar)
    /\ UNCHANGED <<passes, btn, held, now, spawned, picklefile, default_station,
                   buffer, before, sent,
                   vol_cur, vol_new, vol_speed, vol_set, paused, sta_sel,
                   vol_time, play_msg_time, sta_btn_time,
                   x_title, x_info, x_station, x_title_wrap, x_info_wrap,
                   song_title, song_info, artist,
                   station_num, station_new, station_list, station_ids,
                   cursorY, list_top, bar>>

(***************************************************************************)
(* The state after line 256, with the pickle file one of `pickles`.        *)
(***************************************************************************)
Start(pickles) ==
    /\ pc = "boot"
    /\ passes = 0
    /\ btn = {}
    /\ held = 0
    /\ now = StartTime
    /\ lcd = [backlight |-> 0, display |-> TRUE, blank |-> TRUE]
    /\ pianobar = "undefined"
    /\ spawned = 0
    /\ picklefile \in pickles
    /\ default_station = None
    /\ buffer = ""
    /\ before = ""
    /\ sent = <<>>
    /\ vol_cur = Vol(VOL_MIN)
    /\ vol_new = Vol(VOL_DEFAULT)
    /\ vol_speed = VolUnit
    /\ vol_set = FALSE
    /\ paused = FALSE
    /\ sta_sel = FALSE
    /\ vol_time = 0
    /\ play_msg_time = 0
    /\ sta_btn_time = 0
    /\ x_title = 16
    /\ x_info = 16
    /\ x_station = 0
    /\ x_title_wrap = 0
    /\ x_info_wrap = 0
    /\ song_title = ""
    /\ song_info = ""
    /\ artist = ""
    /\ station_num = 0
    /\ station_new = 0
    /\ station_list = <<"">>
    /\ station_ids = <<"">>
    /\ cursorY = 0
    /\ list_top = 0
    /\ bar = <<>>

(***************************************************************************)
(* The front panel with a player that lists three stations and then stays  *)
(* silent: every button sequence, every exit.                              *)
(***************************************************************************)
\* Lines of a station list as pianobar prints them: the id in columns 5-6,
\* the name from column 13.
StationRow(id, name) == "    \t" \o id \o ")     " \o name

PanelListing ==
    <<StationRow(" 0", "80s Rock Radio"),
      StationRow(" 1", "QuickMix"),
      StationRow(" 2", "Symphonic Metal Radio")>>

PanelPickles == {Pickle(<<Vol(VOL_MAX), "Symphonic Metal Radio">>)}

Init == Start(PanelPickles)

LaunchPanel == Launch({StartOutput(PanelListing), "Network error\r\n"})

Next ==
    \/ LoadPickle
    \/ NetworkUp
    \/ NetworkUnreachable
    \/ LaunchPanel
    \/ TickSelect
    \/ TickRight
    \/ TickLeft
    \/ TickUpDown
    \/ TickIdle
    \/ LoopExit
    \/ clean_exit

Spec == Init /\ [][Next]_vars

(***************************************************************************)
(* Initialization under every pickle file and many station listings.      *)
(***************************************************************************)
BootVolumes == {Vol(VOL_MIN), Vol(5), Vol(VOL_MAX)}
BootNames == {"QuickMix", "80s Rock", "Gone Radio"}

BootPickles ==
    {NoPickle, Pickle(<<>>)}
        \cup {Pickle(<<v>>) : v \in BootVolumes}
        \cup {Pickle(<<v, n>>) : v \in BootVolumes, n \in BootNames}

BootLines ==
    {StationRow("01", "QuickMix"),
     StationRow("02", "80s Rock"),
     StationRow("03", "QuickMix"),
     "01)    Quick Mix",
     "02)    80s Rock",
     "(i) Receiving new playlist... Ok.",
     "(i) Autostart station"}

RECURSIVE Listings(_)
Listings(n) ==
    IF n = 0 THEN {<<>>}
    ELSE Listings(n - 1) \cup
         {Append(l, b) : l \in {k \in Listings(n - 1) : Len(k) = n - 1}, b \in BootLines}

InitBoot == Start(BootPickles)

LaunchBoot == Launch({StartOutput(l) : l \in Listings(MaxLines)} \cup {"Network error\r\n"})

NextBoot ==
    \/ LoadPickle
    \/ NetworkUp
    \/ NetworkUnreachable
    \/ LaunchBoot
    \/ LoopExit
    \/ clean_exit

SpecBoot == InitBoot /\ [][NextBoot]_vars

(***************************************************************************)
(* The player talks: pianobar prints `text`, which waits in the buffer     *)
(* until a pass of the main loop reads it.                                 *)
(***************************************************************************)
Feed(texts) ==
    \E text \in texts :
        /\ pc = "loop"
        /\ pianobar = "alive"
        /\ Len(buffer) + Len(text) <= MaxBuffer
        /\ buffer' = buffer \o text
        /\ UNCHANGED <<pc, passes, btn, held, now, lcd, pianobar, spawned, picklefile,
                       default_station, before, sent,
                       vol_cur, vol_new, vol_speed, vol_set, paused, sta_sel,
                       vol_time, play_msg_time, sta_btn_time,
                       x_title, x_info, x_station, x_title_wrap, x_info_wrap,
                       song_title, song_info, artist,
                       station_num, station_new, station_list, station_ids,
                       cursorY, list_top, bar>>

LaunchOk == Launch({StartOutput(PanelListing)})

\* Song announcements, whole and in pieces, and the other markers.
ParseTexts ==
    {"SONG: Life | Artist X | Album Y\r\n",
     "SONG: Life|Artist X|Album Y\r\n",
     "SONG: Life | Art",
     "ist X | Album Y\r\n",
     "SONG: ",
     "STATION: QuickMix | \r\n",
     "TIME: -02:10/03:15\r",
     "TIME: -02:09"}

FeedParse == Feed(ParseTexts)
TickParse == Idle(MaxParses, {1})

NextParse ==
    \/ LoadPickle
    \/ NetworkUp
    \/ LaunchOk
    \/ FeedParse
    \/ TickParse

InitParse == Start({NoPickle})

SpecParse == InitParse /\ [][NextParse]_vars

\* Announcements of titles of every length up to MaxText.
RECURSIVE Titles(_)
Titles(n) ==
    IF n = 0 THEN {""}
    ELSE Titles(n - 1) \cup {t \o "a" : t \in {k \in Titles(n - 1) : Len(k) = n - 1}}

\* Artists and albums that make the artist/album text shorter than, as long
\* as and longer than the 16 columns of the display.
Artists == {Repeat("B", k) : k \in {0, 1, 9, 10}}
Albums == {"", "C"}

ScrollTexts ==
    {"SONG: " \o t \o FieldSep \o a \o FieldSep \o c \o "\r\n" :
        t \in Titles(MaxText), a \in Artists, c \in Albums}

\* One announcement, before the first pass.
FeedScroll == passes = 0 /\ buffer = "" /\ Feed(ScrollTexts)
TickScroll == Idle(MaxFrames, {1})

NextScroll ==
    \/ LoadPickle
    \/ NetworkUp
    \/ LaunchOk
    \/ FeedScroll
    \/ TickScroll

InitScroll == Start({NoPickle})

SpecScroll == InitScroll /\ [][NextScroll]_vars

(***************************************************************************)
(* Properties of the front panel.                                          *)
(***************************************************************************)
InRange(v) == Vol(VOL_MIN) <= v /\ v <= Vol(VOL_MAX)

\* C1: after any sequence of passes of the main loop, whatever the buttons
\* and however long they are held, the current volume vol_cur and the target
\* volume vol_new are both within [VOL_MIN, VOL_MAX].
VolumeInRange == InRange(vol_cur) /\ InRange(vol_new)

\* The volume is at VOL_MAX after two consecutive accelerated volume passes:
\* the upper clamp has cut the step.
VolumeClampedAtMax ==
    /\ pc = "loop"
    /\ vol_set
    /\ vol_time = now
    /\ "UP" \in btn
    /\ vol_speed = Accelerate(Accelerate(VolUnit))
    /\ vol_cur = Vol(VOL_MAX)

\* C2: volume-setting mode (vol_set) and the station menu (sta_sel) are never
\* both active, so exactly one of Normal, VolumeAdjust and StationMenu is the
\* active mode.
ModesExclusive == ~(vol_set /\ sta_sel)

\* The left button has entered the station menu in the pass that followed a
\* volume button, that is while volume-setting mode was active.
MenuEnteredFromVolume ==
    /\ passes = 2
    /\ btn = {"LEFT"}
    /\ sta_sel
    /\ ~vol_set
    /\ vol_time > 0
    /\ sta_btn_time = now
    /\ now - vol_time < VolIdleTicks

\* C3: while the station menu is active the highlighted index station_new is
\* within [0, len(station_list) - 1], the window top list_top is not negative
\* and the highlight is on one of the two displayed rows.
MenuHighlightVisible ==
    sta_sel =>
        /\ 0 <= station_new /\ station_new <= Len(station_list) - 1
        /\ list_top >= 0
        /\ list_top <= station_new /\ station_new <= list_top + 1

\* The menu window has scrolled down to show the last station.
MenuScrolled ==
    /\ sta_sel
    /\ btn = {"DOWN"}
    /\ list_top = 1
    /\ station_new = Len(station_list) - 1

\* C4: a completed pass of the loop that starts in volume-setting mode, reads
\* no volume button and runs at least 4 seconds after the last one leaves
\* volume-setting mode, whatever else is pressed; the mode is then Normal
\* unless that pass entered the station menu.
IdleVolumeExits ==
    [][(/\ passes' = passes + 1
        /\ pc' = "loop"
        /\ vol_set
        /\ btn' \cap {"UP", "DOWN"} = {}
        /\ now' - vol_time >= VolIdleTicks)
       => /\ ~vol_set'
          /\ sta_sel' => btn' = {"LEFT"}]_vars

\* Volume-setting mode has been left by the idle timeout alone.
VolumeTimedOut ==
    /\ pc = "loop"
    /\ passes = 2
    /\ btn = {}
    /\ vol_time > 0
    /\ now - vol_time >= VolIdleTicks
    /\ ~vol_set
    /\ ~sta_sel

\* The tap action of lines 389-400, from the globals before the pass to
\* those after it.
TapDone ==
    /\ pc' = "loop"
    /\ ~sta_sel'
    /\ IF sta_sel
       THEN paused' = paused /\ vol_set' = vol_set /\ Head(sent') = "\n"
       ELSE paused' = ~paused /\ ~vol_set' /\ Head(sent') = "p"
    /\ \A i \in 2..Len(sent') : Head(sent'[i]) \in {"(", ")"}

\* C9: a pass that finds select pressed shuts down, without the tap action,
\* if select stays down for HOLD_TIME or more, in every mode; if select is
\* released before HOLD_TIME it does not shut down and does exactly the tap
\* action (cancel the menu, or toggle pause).
SelectHoldOrTap ==
    [][(passes' = passes + 1 /\ "SELECT" \in btn')
       => IF held' >= HoldTicks
          THEN /\ pc' = "atexit"
               /\ lcd'.blank
               /\ sent' = <<>>
               /\ sta_sel' = sta_sel /\ paused' = paused /\ vol_set' = vol_set
          ELSE TapDone]_vars

\* Select was held for HOLD_TIME while the station menu was open: shutdown.
ShutdownFromMenu ==
    /\ pc = "atexit"
    /\ "SELECT" \in btn
    /\ held >= HoldTicks
    /\ sta_sel

\* The program has ended because the station list never arrived.
LaunchFailed == spawned = 1 /\ passes = 0 /\ sent = <<>>

\* C10: on every path that ends the program (pianobar no longer alive,
\* shutdown by holding select, network never reachable) the cleanup step
\* leaves the display blank and disabled with the backlight off, the child
\* process is not alive after it, and the child was spawned at most once.
CleanupKillsPlayer ==
    (pc = "done" /\ ~LaunchFailed) =>
        /\ lcd = [backlight |-> 0, display |-> FALSE, blank |-> TRUE]
        /\ pianobar # "alive"
        /\ spawned <= 1

\* A pass that reads no new announcement and draws the title.
TitleDrawn ==
    /\ passes' = passes + 1
    /\ Find(buffer, "SONG: ") < 0
    /\ ~sta_sel'

\* C5 as stated: each call of marquee() lowers the offset by one until the
\* wrap threshold, then resets it to the start offset 16, forever.
MarqueeRestartsAtStart ==
    [][TitleDrawn => (x_title' = x_title - 1 \/ x_title' = 16)]_vars

\* C5, amended: each call of marquee() lowers the offset by exactly one,
\* from the start offset 16 down to one past the wrap threshold; the call
\* that finds the offset past the threshold resets it to 0 (not to 16), so
\* that after the scroll-in the offsets 0, -1, ..., x_wrap - 1 repeat with
\* period len(s) = 2 - x_wrap.
MarqueeCycle ==
    [][TitleDrawn =>
         /\ x_title_wrap - 1 <= x_title /\ x_title <= 16
         /\ x_title' = IF x_title = x_title_wrap - 1 THEN 0 ELSE x_title - 1
         /\ x_title_wrap' = x_title_wrap]_vars

\* The marquee of an announced title has wrapped: the offset is back at 0
\* after the 16 passes of the scroll-in and the passes of one period.
MarqueeWrapped ==
    /\ song_title # ""
    /\ x_title = 0
    /\ passes = 16 + (2 - x_title_wrap)

\* Station rows in pianobar's fixed columns.
RowQuickMix == StationRow("01", "QuickMix")
Row80sRock == StationRow("02", "80s Rock")

\* C6 as stated: the lines "01)    Quick Mix", "02)    80s Rock" and the
\* prompt line yield the names QuickMix, 80s Rock and the ids 01, 02.
StationsFromSpecLines ==
    (pc = "loop" /\ SplitLines(before) = <<"01)    Quick Mix", "02)    80s Rock", "[?] ">>)
        => /\ station_list = <<"QuickMix", "80s Rock">>
           /\ station_ids = <<"01", "02">>

\* C6, amended: lines in pianobar's fixed columns (id in columns 5-6, name
\* from column 13) for QuickMix with id 01 and 80s Rock with id 02, followed
\* by the prompt line, yield the names QuickMix, 80s Rock and the ids 01, 02,
\* QuickMix first in either order of the two lines.
StationsFromRows ==
    (/\ pc = "loop"
     /\ SplitLines(before) \in {<<RowQuickMix, Row80sRock, "[?] ">>,
                                <<Row80sRock, RowQuickMix, "[?] ">>})
        => /\ station_list = <<"QuickMix", "80s Rock">>
           /\ station_ids = <<"01", "02">>

\* The list was parsed from rows that had QuickMix last.
QuickMixMovedUp ==
    /\ pc = "loop"
    /\ SplitLines(before) = <<Row80sRock, RowQuickMix, "[?] ">>
    /\ station_list = <<"QuickMix", "80s Rock">>

\* The title and the padding that line 334 appends to it.
TitleShown(title) == Slice(song_title', 0, Len(title) + 4) = title \o "    "

\* C7 as stated: the announcement "Life|Artist X|Album Y\r\n" after the
\* marker gives the title Life, the artist Artist X, the album Album Y and
\* non-empty marquee strings for both lines.
SongFromBarePipes ==
    [][(passes' = passes + 1 /\ buffer = "SONG: Life|Artist X|Album Y\r\n")
       => /\ TitleShown("Life")
          /\ artist' = "Artist X"
          /\ Slice(song_info', 0, 21) = "Artist X < Album Y > "
          /\ song_title' # "" /\ song_info' # ""]_vars

\* C7, amended: the announcement "Life | Artist X | Album Y\r\n", its fields
\* separated by a pipe between two spaces, gives the title Life, the artist
\* Artist X, the album Album Y and non-empty marquee strings for both lines.
SongFromSpacedPipes ==
    [][(passes' = passes + 1 /\ buffer = "SONG: Life | Artist X | Album Y\r\n")
       => /\ TitleShown("Life")
          /\ artist' = "Artist X"
          /\ Slice(song_info', 0, 21) = "Artist X < Album Y > "
          /\ song_title' # "" /\ song_info' # ""
          /\ buffer' = ""]_vars

\* An announcement has been parsed to its end.
SongParsed ==
    /\ passes >= 1
    /\ artist = "Artist X"
    /\ Slice(song_title, 0, 8) = "Life    "
    /\ Slice(song_info, 0, 21) = "Artist X < Album Y > "
    /\ buffer = ""

\* Reading the pickle file fails at some point of lines 260-264.
PickleReadFails == ~picklefile.ok \/ Len(picklefile.v) < 2

\* C8: if reading the persisted state fails at any point, the target volume
\* is VOL_DEFAULT and station 0 is selected and sent to the player; a
\* persisted name that is not in the station list selects station 0 too.
DefaultsOnReadFailure ==
    (pc = "loop" /\ passes = 0) =>
        /\ PickleReadFails =>
              /\ vol_new = Vol(VOL_DEFAULT)
              /\ station_num = 0
              /\ sent = <<station_ids[1] \o "\n">>
        /\ (\A i \in 1..Len(station_list) : default_station # Name(station_list[i]))
              => station_num = 0 /\ sent = <<station_ids[1] \o "\n">>

\* A pass with the left button that enters the station menu.
MenuEntered == passes' = passes + 1 /\ btn' = {"LEFT"} /\ ~sta_sel /\ sta_sel'

\* C11: when the left button enters the station menu, the highlighted
\* station is reset to the station that is playing, 's' is sent to the
\* player and volume-setting mode is left.
MenuEntryKeepsStation ==
    [][MenuEntered =>
         /\ station_new' = station_num'
         /\ sent' = <<"s">>
         /\ ~vol_set']_vars

\* A command that only changes the volume: a run of ')' or a run of '('.
IsVolumeCommand(s) ==
    /\ s # ""
    /\ s \in {Repeat(")", Len(s)), Repeat("(", Len(s))}

\* C12: when the left button leaves the station menu, the highlighted
\* station becomes the selected one, its id and a line terminator are sent
\* (followed at most by volume commands), the pause flag is cleared and the
\* mode is Normal; no other pass of the main loop changes the selection.
MenuExitCommits ==
    [][passes' = passes + 1 =>
         IF sta_sel /\ btn' = {"LEFT"}
         THEN /\ station_num' = station_new
              /\ sent'[1] = station_ids[station_new + 1] \o "\n"
              /\ \A i \in 2..Len(sent') : IsVolumeCommand(sent'[i])
              /\ ~paused' /\ ~sta_sel' /\ ~vol_set'
         ELSE station_num' = station_num]_vars

\* The menu has been left with the left button on another station than the
\* one that played before.
StationCommitted ==
    /\ pc = "loop"
    /\ btn = {"LEFT"}
    /\ ~sta_sel
    /\ station_num = 1
    /\ station_new = 1
    /\ sent[1] = station_ids[2] \o "\n"

\* A pass in which select was tapped, not held.
Tapped == passes' = passes + 1 /\ "SELECT" \in btn' /\ pc' = "loop"

\* The commands from the second on only change the volume.
OnlyVolumeAfterFirst(cmds) == \A i \in 2..Len(cmds) : IsVolumeCommand(cmds[i])

\* C13: a select tap in the station menu sends a newline and no 'p', leads
\* to Normal mode and keeps the pause flag and the selected station, which
\* no pass changes while the menu is open, so that they are as before the
\* menu was entered; a select tap in any other mode flips the pause flag
\* and sends exactly one 'p'.
SelectTapCancelsOrToggles ==
    [][/\ Tapped =>
            IF sta_sel
            THEN /\ sent'[1] = "\n" /\ OnlyVolumeAfterFirst(sent')
                 /\ ~sta_sel' /\ ~vol_set'
                 /\ paused' = paused
                 /\ station_num' = station_num
            ELSE /\ sent'[1] = "p" /\ OnlyVolumeAfterFirst(sent')
                 /\ paused' = ~paused
       /\ (passes' = passes + 1 /\ sta_sel') =>
            /\ paused' = paused
            /\ station_num' = station_num]_vars

\* The menu, entered while paused, has been cancelled by a select tap.
MenuCancelledWhilePaused ==
    /\ pc = "loop"
    /\ btn = {"SELECT"}
    /\ paused
    /\ ~sta_sel
    /\ sent # <<>> /\ sent[1] = "\n"

\* The commands of a pass that skips to the next track: the newline that
\* cancels the menu if it was open, then 'n', then at most volume commands.
NextTrackSent(cmds, menu) ==
    LET k == IF menu THEN 2 ELSE 1
    IN  /\ Len(cmds) >= k
        /\ menu => cmds[1] = "\n"
        /\ cmds[k] = "n"
        /\ \A i \in (k + 1)..Len(cmds) : IsVolumeCommand(cmds[i])

\* C14 as stated: in every mode, a pass in which the right button is
\* pressed sends 'n' (after the cancelling newline if the menu was open),
\* clears the pause flag and ends in Normal mode.
RightAlwaysSkips ==
    [][(passes' = passes + 1 /\ "RIGHT" \in btn')
       => /\ NextTrackSent(sent', sta_sel)
          /\ ~paused' /\ ~sta_sel' /\ ~vol_set']_vars

\* C14, amended: in every mode, a pass in which the right button is pressed
\* and the select button is not sends 'n' (after the cancelling newline if
\* the menu was open), clears the pause flag and ends in Normal mode.
RightSkipsUnlessSelect ==
    [][(passes' = passes + 1 /\ "RIGHT" \in btn' /\ "SELECT" \notin btn')
       => /\ NextTrackSent(sent', sta_sel)
          /\ ~paused' /\ ~sta_sel' /\ ~vol_set']_vars

\* The right button has skipped to the next track out of the station menu.
SkippedFromMenu ==
    /\ pc = "loop"
    /\ btn = {"RIGHT"}
    /\ Len(sent) >= 2 /\ sent[1] = "\n" /\ sent[2] = "n"
    /\ ~sta_sel

\* The pending output starts with the marker of a song announcement whose
\* title, artist or album has not arrived in full.
PartialSong(buf) ==
    /\ Find(buf, "SONG: ") = 0
    /\ LET e1 == Expect(SliceFrom(buf, 6), <<FieldSep>>)
           e2 == Expect(e1.buffer, <<FieldSep>>)
           e3 == Expect(e2.buffer, <<"\r\n">>)
       IN  e1.x # 0 \/ e2.x # 0 \/ e3.x # 0

\* C15: a pass that reads the marker of a song announcement of which a field
\* is missing leaves the marquee strings and wrap thresholds of the
\* now-playing record as they were.
PartialSongKeepsRecord ==
    [][(passes' = passes + 1 /\ PartialSong(buffer))
       => UNCHANGED <<song_title, song_info, x_title_wrap, x_info_wrap>>]_vars

\* A pass that finds the left or the right button as the pass before found
\* it: the button stayed down, there was no edge.
HeldOver ==
    /\ passes' = passes + 1
    /\ passes >= 1
    /\ btn' = btn
    /\ btn \in {{"LEFT"}, {"RIGHT"}}

\* Every command of the pass only changes the volume.
OnlyVolume(cmds) == \A i \in 1..Len(cmds) : IsVolumeCommand(cmds[i])

\* C16: the modes, the pause flag and the highlighted and selected station
\* change, and commands other than the pending volume steps are sent, only
\* on a button edge or a timeout: a left or right button that stays down
\* over consecutive passes acts once, not once per pass.
ButtonsActOnEdges ==
    [][HeldOver =>
         /\ UNCHANGED <<sta_sel, vol_set, paused, station_num, station_new>>
         /\ OnlyVolume(sent')]_vars

\* The net number of volume-up steps in the commands of one pass.
RECURSIVE NetVolume(_)
NetVolume(cmds) ==
    IF cmds = <<>> THEN 0
    ELSE LET s == Head(cmds)
         IN  (IF ~IsVolumeCommand(s) THEN 0
              ELSE IF s = Repeat(")", Len(s)) THEN Len(s)
              ELSE -Len(s))
             + NetVolume(Tail(cmds))

\* The volume commands among the commands of one pass.
VolumeCommands(cmds) == SelectSeq(cmds, IsVolumeCommand)

\* The one command that moves the player's volume by d steps.
StepsFor(d) ==
    IF d > 0 THEN <<Repeat(")", d)>>
    ELSE IF d < 0 THEN <<Repeat("(", -d)>>
    ELSE <<>>

\* C17: a pass that ends outside the station menu sends exactly |d| unit
\* volume steps, all ')' if d > 0 and all '(' if d < 0, for d the difference
\* of the integerized target and current volume, and then has vol_cur =
\* vol_new; a pass that ends in the menu sends no volume step.  The loop
\* starts with the integerized volume 0 and every pass sends as many net
\* steps as the integerized vol_cur moves, so the steps sent so far always
\* add up to int(vol_cur - VOL_MIN + 0.5).
VolumeStepsFollowTarget ==
    /\ []((pc = "loop" /\ passes = 0) => VolInt(vol_cur) = 0)
    /\ [][(passes' = passes + 1 /\ pc' = "loop") =>
            /\ IF sta_sel'
               THEN VolumeCommands(sent') = <<>> /\ vol_cur' = vol_cur
               ELSE /\ VolumeCommands(sent') = StepsFor(VolInt(vol_new') - VolInt(vol_cur))
                    /\ vol_cur' = vol_new'
            /\ NetVolume(sent') = VolInt(vol_cur') - VolInt(vol_cur)]_vars

\* The volume was brought up to the persisted one and then taken down a step.
VolumeSteppedDown ==
    /\ pc = "loop"
    /\ passes >= 2
    /\ ~sta_sel
    /\ sent = <<"(">>
    /\ vol_cur = vol_new
    /\ VolInt(vol_cur) = VOL_MAX - VOL_MIN - 1

\* The 16-column window that marquee() reads at offset x lies inside s.
WindowInside(s, x) ==
    /\ Len(MarqueeFrame(s, x)) = 16
    /\ x <= 0 => 16 - x <= Len(s)

\* Offset x is the last of a cycle: the next call of marquee() resets to 0,
\* and the frame at 0 is the frame one column further on.
Seamless(s, x, x_wrap) ==
    x = x_wrap - 1 =>
        /\ marquee(s, x, x_wrap) = 0
        /\ 16 - (x - 1) <= Len(s)
        /\ MarqueeFrame(s, 0) = MarqueeFrame(s, x - 1)

\* The title of the announcement at the head of the pending output.
AnnouncedTitle(buf) == Expect(SliceFrom(buf, 6), <<FieldSep>>).before

\* C18: for every announced title and artist/album text, at every offset
\* the marquee reaches, the 16-column window lies inside the repeated
\* string, and the frame after the reset to 0 is the frame that one more
\* column of scrolling would have shown; the offsets of a cycle are as many
\* as the padded text has characters.
MarqueeSeamless ==
    /\ [](song_title # "" =>
            /\ WindowInside(song_title, x_title)
            /\ Seamless(song_title, x_title, x_title_wrap))
    /\ [](song_info # "" =>
            /\ WindowInside(song_info, x_info)
            /\ Seamless(song_info, x_info, x_info_wrap))
    /\ [][(passes' = passes + 1 /\ Find(buffer, "SONG: ") = 0) =>
            /\ song_title' # "" /\ song_info' # ""
            /\ 2 - x_title_wrap' = Len(AnnouncedTitle(buffer)) + 4]_vars

\* The marquee of a title longer than the display is at the end of a cycle.
LongTitleAtWrap ==
    /\ song_title # ""
    /\ x_title_wrap = -15
    /\ x_title = x_title_wrap - 1

\* The line is none of the status lines that get_stations() skips.
IsStationLine(b) == Find(b, "playlist...") < 0 /\ Find(b, "Autostart") < 0

\* The name and the id in the fixed columns of a line.
NameColumn(b) == Strip(SliceFrom(b, 13))
IdColumn(b) == Strip(Slice(b, 5, 7))

IsQuickMix(b) == NameColumn(b) = "QuickMix"
IsOther(b) == NameColumn(b) # "QuickMix"

Reversed(q) == [i \in 1..Len(q) |-> q[Len(q) + 1 - i]]

\* The lines that make the entries of the station list, in the order of the
\* list: every line but the last and the status lines, those named QuickMix
\* each moved to the head, the others in the order of the input.
EntryLines(a) ==
    LET kept == SelectSeq(SubSeq(a, 1, Len(a) - 1), IsStationLine)
    IN  Reversed(SelectSeq(kept, IsQuickMix)) \o SelectSeq(kept, IsOther)

\* get_stations() has returned and its lists are the station lists.
StationsParsed == pc = "loop" /\ passes = 0

IsTerminator(s) == s # "" /\ Slice(s, Len(s) - 1, Len(s)) = "\n"

\* The commands of a pass that found no request open: no terminator, and
\* at most one 's', which is then the last command and opens the menu.
ClosedPass(cmds, open) ==
    /\ \A i \in 1..Len(cmds) : ~IsTerminator(cmds[i])
    /\ \A i \in 1..(Len(cmds) - 1) : cmds[i] # "s"
    /\ open <=> (cmds # <<>> /\ cmds[Len(cmds)] = "s")

\* The commands of a pass that found a request open: none, and it stays
\* open, or its terminator first and neither 's' nor a terminator after it.
OpenPass(cmds, open) ==
    IF cmds = <<>> THEN open
    ELSE /\ IsTerminator(cmds[1])
         /\ \A i \in 2..Len(cmds) : cmds[i] # "s" /\ ~IsTerminator(cmds[i])
         /\ ~open

\* C20: in the commands the main loop sends, the requests 's' and the
\* terminators alternate, starting with 's', and nothing else is sent
\* between an 's' and its terminator.  The loop starts with no request open,
\* a request is open exactly while sta_sel is set, and every pass sends what
\* that allows.
MenuRequestsAlternate ==
    /\ []((pc = "loop" /\ passes = 0) => ~sta_sel)
    /\ [][passes' = passes + 1 =>
            IF sta_sel THEN OpenPass(sent', sta_sel')
            ELSE ClosedPass(sent', sta_sel')]_vars

\* A request stayed open over a pass with a volume button down, during
\* which nothing was sent.
RequestOpenOverVolumeButton ==
    /\ pc = "loop"
    /\ passes = 2
    /\ sta_sel
    /\ btn \in {{"UP"}, {"DOWN"}}
    /\ sent = <<>>
    /\ vol_cur # vol_new

\* A text written at column w.col of a row ends within the 16 columns.
InDisplay(w) == w.col >= 0 /\ w.col + Len(w.text) <= 16

\* C21: every text written for the volume bargraph stays within columns
\* 0..15 of row 1: the full bar drawn on entering volume-setting mode is
\* exactly 16 characters long, and every redraw starts at a column x + 9 and
\* ends at column 15 or before.
BargraphInDisplay ==
    \A i \in 1..Len(bar) :
        /\ InDisplay(bar[i])
        /\ bar[i].col = 0 => Len(bar[i].text) = 16
        /\ bar[i].col # 0 => bar[i].col >= 9

====
